---- MODULE Spec2Model ----
(***************************************************************************)
(* Model of the business logic of the Superstore analytics dashboard       *)
(* (src/dashboard_logic.py).  calculate_rfm, calculate_roi_impact and       *)
(* validate_data are functions of a table the caller owns; the model draws *)
(* the table and the other arguments from bounded sets in Init and applies *)
(* one of the functions in one action.  The table is its rows (df), its    *)
(* column names (df_columns) and the dtype of its Order_Date column.       *)
(*                                                                         *)
(* Dates are integers counted in ticks, DayTicks ticks to the day, so that *)
(* Timedelta.days is a floor division and not the identity.  Amounts are   *)
(* integers.  Customer_IDs are integers; their order is the order in which *)
(* pandas sorts the group keys.                                            *)
(***************************************************************************)
EXTENDS Integers, Sequences, FiniteSets, TLC

VARIABLES df, df_columns, order_date_dtype, snapshot_date, discount_cap,
          elasticity, pc, call, rfm, handled, roi, validation, db_error,
          f_df

vars == <<df, df_columns, order_date_dtype, snapshot_date, discount_cap,
          elasticity, pc, call, rfm, handled, roi, validation, db_error,
          f_df>>

\* the state of a run of the dashboard: whether reading the database fails,
\* and the filtered table
dash == <<db_error, f_df>>

\* the caller's table, which the functions receive by reference
table == <<df, df_columns, order_date_dtype>>

----------------------------------------------------------------------------
(* Bounds of the model *)

\* the longest table of the general specification
MaxRows == 3
\* the largest number of customers of the scoring specification
MaxScoreCust == 10

(* Value sets of the order records *)

\* snapshot_date is None (the empty tuple) or a one-element tuple <<date>>
None == <<>>
DayTicks == 2
OrderDates == {1, 4}
OrderIds == {1, 2}
SalesValues == {1, 2}
Snapshots == {None, <<3>>}
CustomerIds == {1, 2}

OrderRecord == [Customer_ID : CustomerIds, Order_Date : OrderDates,
                Order_ID : OrderIds, Sales : SalesValues]

Tables == UNION {[1..n -> OrderRecord] : n \in 0..MaxRows}

\* Order histories of one customer, for the tables of many customers: one old
\* order, one recent order, or an old and a recent order.
Histories ==
    { <<[Order_Date |-> 0, Order_ID |-> 1, Sales |-> 2]>>,
      <<[Order_Date |-> 4, Order_ID |-> 1, Sales |-> 1]>>,
      <<[Order_Date |-> 1, Order_ID |-> 1, Sales |-> 1],
        [Order_Date |-> 4, Order_ID |-> 2, Sales |-> 2]>> }

HistoryRows(c, h) ==
    [i \in DOMAIN h |->
        [Customer_ID |-> c, Order_Date |-> h[i].Order_Date,
         Order_ID |-> h[i].Order_ID, Sales |-> h[i].Sales]]

\* the table of customers n, n-1, ..., 1 with the histories hs[n], ..., hs[1]
RECURSIVE HistoryTable(_, _)
HistoryTable(hs, n) ==
    IF n = 0 THEN <<>>
    ELSE HistoryRows(n, hs[n]) \o HistoryTable(hs, n - 1)


----------------------------------------------------------------------------
(* Helpers standing for the pandas primitives calculate_rfm calls.  A       *)
(* column or table built row by row is written [i \in ... |-> ...] \o <<>>, *)
(* the same sequence held as a tuple, which TLC evaluates once.            *)

RECURSIVE SetToSortedSeq(_)
SetToSortedSeq(S) ==
    IF S = {} THEN <<>>
    ELSE LET m == CHOOSE x \in S : \A y \in S : x <= y
         IN <<m>> \o SetToSortedSeq(S \ {m})

\* a variant that keeps the keys in order of first appearance (sort=False)
RECURSIVE FirstSeenKeys(_)
FirstSeenKeys(rows) ==
    IF rows = <<>> THEN <<>>
    ELSE <<Head(rows).Customer_ID>>
         \o FirstSeenKeys(SelectSeq(Tail(rows),
                LAMBDA r : r.Customer_ID # Head(rows).Customer_ID))

\* df.groupby('Customer_ID'): the group keys, sorted ascending (sort=True)
GroupKeys(rows) == SetToSortedSeq({rows[i].Customer_ID : i \in DOMAIN rows})

Group(rows, c) == SelectSeq(rows, LAMBDA r : r.Customer_ID = c)

\* a variant that takes the date of the last row of the group
LastOrderDate(rows) == rows[Len(rows)].Order_Date

\* Series.max() of Order_Date over a non-empty sequence of rows
MaxOrderDate(rows) ==
    CHOOSE d \in {rows[i].Order_Date : i \in DOMAIN rows} :
        \A i \in DOMAIN rows : rows[i].Order_Date <= d

\* Timedelta.days: whole days, rounded towards minus infinity
Days(td) == td \div DayTicks

\* a variant that counts the distinct Order_IDs (agg 'nunique')
CountDistinct(g) == Cardinality({g[i].Order_ID : i \in DOMAIN g})

\* agg 'count' on Order_ID: the number of entries of the group (Order_ID is a
\* required field of an order record, so every entry is counted)
Count(g) == Len(g)

\* a variant that keeps the largest sale (agg 'max')
SumMax(g) ==
    CHOOSE m \in {g[i].Sales : i \in DOMAIN g} : \A i \in DOMAIN g : g[i].Sales <= m

\* agg 'sum' on Sales
RECURSIVE SumFrom(_, _)
SumFrom(g, k) == IF k > Len(g) THEN 0 ELSE g[k].Sales + SumFrom(g, k + 1)

Sum(g) == SumFrom(g, 1)

----------------------------------------------------------------------------
(* Series.rank(method='first') and pd.qcut(x, 5, labels, duplicates='drop') *)

NumBins == 5

\* a variant in which tied elements share the lowest rank (method='min')
RankMin(x) ==
    [i \in DOMAIN x |->
        1 + Cardinality({j \in DOMAIN x : x[j] < x[i]})] \o <<>>

\* rank(method='first'): ascending rank, ties in order of appearance in x;
\* the rank of an element counts the smaller elements, the equal elements
\* before it, and itself
Rank(x) ==
    [i \in DOMAIN x |->
        Cardinality({j \in DOMAIN x :
                        x[j] < x[i] \/ (x[j] = x[i] /\ j <= i)})] \o <<>>

SortAsc(x) == SortSeq(x, LAMBDA a, b : a < b)

\* Series.quantile(k / NumBins) of the sorted values s, linear interpolation
\* between the two nearest order statistics; the value is returned multiplied
\* by NumBins so that it stays an integer.
Quantile(s, k) ==
    LET pos == (Len(s) - 1) * k
        lo  == pos \div NumBins
        fr  == pos % NumBins
    IN  IF fr = 0 THEN NumBins * s[lo + 1]
        ELSE NumBins * s[lo + 1] + (s[lo + 2] - s[lo + 1]) * fr

\* the NumBins + 1 bin edges, duplicates dropped (duplicates='drop')
UniqueBins(x) ==
    LET s == SortAsc(x)
    IN  SetToSortedSeq({Quantile(s, k) : k \in 0..NumBins})

\* bins.searchsorted(v, side='left'): the number of edges strictly below v
SearchSorted(bins, v) == Cardinality({i \in DOMAIN bins : bins[i] < v})

\* _bins_to_cuts with right=True, include_lowest=True: the bin of every
\* element of x.  An element lies between the lowest and the highest edge,
\* which are the minimum and the maximum of x, so no bin id is 0 or Len(bins).
BinIds(x, bins) ==
    [i \in DOMAIN x |->
        IF NumBins * x[i] = bins[1] THEN 1
        ELSE SearchSorted(bins, NumBins * x[i])] \o <<>>

\* a variant that gives up whenever there are fewer elements than bins
QcutRaisesBelowBins(x, labels) == Len(x) < NumBins

\* qcut raises ValueError when the labels are not one fewer than the edges
QcutRaises(x, labels) == Len(labels) # Len(UniqueBins(x)) - 1

\* a variant that returns the category codes 0..4 in place of the labels
QcutCodes(x, labels) ==
    LET ids == BinIds(x, UniqueBins(x))
    IN  [i \in DOMAIN x |-> ids[i] - 1] \o <<>>

Qcut(x, labels) ==
    LET ids == BinIds(x, UniqueBins(x))
    IN  [i \in DOMAIN x |-> labels[ids[i]]] \o <<>>

\* a variant that leaves the Recency labels in ascending order
RLabelsAscending == <<1, 2, 3, 4, 5>>

RLabels == <<5, 4, 3, 2, 1>>

\* a variant that gives the Frequency labels in descending order
FLabelsDescending == <<5, 4, 3, 2, 1>>

FLabels == <<1, 2, 3, 4, 5>>
MLabels == <<1, 2, 3, 4, 5>>

\* the default of the except ValueError branch
MiddleScore == 3

\* one pass of the scoring loop on a metric column x: whether qcut raised
\* ValueError, and the scores assigned
Score(x, labels) ==
    LET ranks == Rank(x)
    IN  IF QcutRaises(ranks, labels)
        THEN [raised |-> TRUE, scores |-> [i \in DOMAIN x |-> MiddleScore] \o <<>>]
        ELSE [raised |-> FALSE, scores |-> Qcut(ranks, labels)]

\* a variant whose Champions threshold on F is one lower
SegmentLooseF(r, f) ==
    IF r >= 4 /\ f >= 3 THEN "Champions"
    ELSE IF r <= 2 /\ f >= 4 THEN "At Risk"
    ELSE "Regular"

\* segment(row)
Segment(r, f) ==
    IF r >= 4 /\ f >= 4 THEN "Champions"
    ELSE IF r <= 2 /\ f >= 4 THEN "At Risk"
    ELSE "Regular"

\* segment_map(x) of the analytics scripts, the labelling in five tiers
SegmentMapHibernatingFirst(r, f) ==
    IF r >= 4 /\ f >= 4 THEN "Champions"
    ELSE IF r >= 3 /\ f >= 3 THEN "Loyalists"
    ELSE IF r <= 1 THEN "Hibernating"
    ELSE IF r <= 2 /\ f >= 4 THEN "At Risk"
    ELSE "Regular"

SegmentMap(r, f) ==
    IF r >= 4 /\ f >= 4 THEN "Champions"
    ELSE IF r >= 3 /\ f >= 3 THEN "Loyalists"
    ELSE IF r <= 2 /\ f >= 4 THEN "At Risk"
    ELSE IF r <= 1 THEN "Hibernating"
    ELSE "Regular"

----------------------------------------------------------------------------
(* calculate_rfm *)

EmptyColumns == <<"Customer_ID", "Recency", "Frequency", "Monetary", "Segment">>

RfmColumns == <<"Customer_ID", "Recency", "Frequency", "Monetary",
                "R", "F", "M", "Segment">>

\* a variant whose default is max(Order_Date), without the added day
SnapshotNoDay(rows, snap) ==
    IF snap = None THEN MaxOrderDate(rows) ELSE snap[1]

\* snapshot_date, defaulted to max(Order_Date) + 1 day
SnapshotOf(rows, snap) ==
    IF snap = None THEN MaxOrderDate(rows) + DayTicks ELSE snap[1]

\* df.groupby('Customer_ID').agg({...}), one row per group key
Agg(rows, snap) ==
    LET keys == GroupKeys(rows)
        snapshot == SnapshotOf(rows, snap)
    IN  [i \in DOMAIN keys |->
            LET g == Group(rows, keys[i])
            IN  [Customer_ID |-> keys[i],
                 Recency     |-> Days(snapshot - MaxOrderDate(g)),
                 Frequency   |-> Count(g),
                 Monetary    |-> Sum(g)]] \o <<>>

Column(t, col) == [i \in DOMAIN t |-> t[i][col]] \o <<>>

\* the score loop's pairs of metric column and labels
Labels(col) ==
    CASE col = "Recency"   -> RLabels
      [] col = "Frequency" -> FLabels
      [] col = "Monetary"  -> MLabels

MetricColumns == {"Recency", "Frequency", "Monetary"}

\* the scoring loop over the metric columns of the grouped table a
ScoreLoop(a) ==
    [Recency   |-> Score(Column(a, "Recency"), Labels("Recency")),
     Frequency |-> Score(Column(a, "Frequency"), Labels("Frequency")),
     Monetary  |-> Score(Column(a, "Monetary"), Labels("Monetary"))]

\* the metric columns for which the except ValueError branch ran
Handled(sc) == {c \in MetricColumns : sc[c].raised}

\* the grouped table a with its score columns sc, the segment and the index
\* reset to a Customer_ID column
Scored(a, sc) ==
    [i \in DOMAIN a |->
        [Customer_ID |-> a[i].Customer_ID,
         Recency     |-> a[i].Recency,
         Frequency   |-> a[i].Frequency,
         Monetary    |-> a[i].Monetary,
         R           |-> sc.Recency.scores[i],
         F           |-> sc.Frequency.scores[i],
         M           |-> sc.Monetary.scores[i],
         Segment     |-> Segment(sc.Recency.scores[i], sc.Frequency.scores[i])]] \o <<>>

\* the rows calculate_rfm returns for a non-empty table
RfmRows(rows, snap) ==
    LET a == Agg(rows, snap)
    IN  Scored(a, ScoreLoop(a))

NoResult == [columns |-> <<>>, rows |-> <<>>]

\* the columns calculate_rfm reads from a table that is not empty
RfmInputColumns == {"Customer_ID", "Order_Date", "Order_ID", "Sales"}

\* indexing or aggregating a column the table lacks raises KeyError
RfmRaises(rows, cols) == rows # <<>> /\ ~(RfmInputColumns \subseteq cols)

calculate_rfm ==
    /\ pc = "ready"
    /\ call' = "calculate_rfm"
    /\ IF df = <<>>
       THEN /\ rfm' = [columns |-> EmptyColumns, rows |-> <<>>]
            /\ handled' = {}
            /\ pc' = "returned"
       ELSE IF RfmRaises(df, df_columns)
       THEN /\ pc' = "raised"
            /\ UNCHANGED <<rfm, handled>>
       ELSE LET a  == Agg(df, snapshot_date)
                sc == ScoreLoop(a)
            IN  /\ rfm' = [columns |-> RfmColumns, rows |-> Scored(a, sc)]
                /\ handled' = Handled(sc)
                /\ pc' = "returned"
    /\ UNCHANGED <<table, snapshot_date, discount_cap, elasticity, roi,
                   validation, dash>>

----------------------------------------------------------------------------
(* calculate_roi_impact *)

\* Discounts, the cap and the elasticity are fractions of 1 counted in
\* tenths: Unit is the value 1.0.  A product of two of them is counted in
\* hundredths, so the amounts of the simulation and of the result are
\* counted in hundredths of the unit of Sales and Profit.
Unit == 10

\* an input amount in the unit of the result
Amount(x) == x * Unit * Unit

\* a missing cell (NaN); a cell of a column that can miss values is <<v>>
NaN == <<>>

RoiInputColumns == {"Discount", "Sales", "Profit"}

\* indexing a column the table lacks raises KeyError
RoiRaises(rows, cols) == rows # <<>> /\ ~(RoiInputColumns \subseteq cols)

\* the dict returned for an empty table
ZeroImpactNoRisk ==
    [original_profit |-> 0, new_profit |-> 0, profit_gain |-> 0]

ZeroImpact ==
    [original_profit |-> 0, new_profit |-> 0, profit_gain |-> 0,
     revenue_risk |-> 0]

\* mask_cap = sim_df['Discount'] > discount_cap
MaskBelowCap(rows, cap) ==
    [i \in DOMAIN rows |-> rows[i].Discount < cap] \o <<>>

MaskCap(rows, cap) == [i \in DOMAIN rows |-> rows[i].Discount > cap] \o <<>>

\* vol_loss of a row under the mask, in hundredths
VolLossGain(r, cap, e) == (cap - r.Discount) * e

VolLossNoElasticity(r, cap, e) == (r.Discount - cap) * Unit

VolLoss(r, cap, e) == (r.Discount - cap) * e

\* sim_df.loc[mask_cap, 'New_Sales'] = sim_df.loc[mask_cap, 'Sales'] * (1 - vol_loss):
\* the new column holds NaN in the rows outside the mask
NewSalesMasked(rows, cap, e) ==
    LET mask == MaskCap(rows, cap)
    IN  [i \in DOMAIN rows |->
            IF mask[i]
            THEN <<rows[i].Sales * (Unit * Unit - VolLoss(rows[i], cap, e))>>
            ELSE NaN] \o <<>>

\* column.fillna(other, inplace=True) on the column of sim_df
FillnaLost(col, other) == col

Fillna(col, other) ==
    [i \in DOMAIN col |-> IF col[i] = NaN THEN <<other[i]>> ELSE col[i]] \o <<>>

\* sim_df['New_Sales'] after the fill
NewSales(rows, cap, e) ==
    Fillna(NewSalesMasked(rows, cap, e),
           [i \in DOMAIN rows |-> Amount(rows[i].Sales)] \o <<>>)

\* cost = sim_df['Sales'] - sim_df['Profit']
CostNoProfit(r) == Amount(r.Sales)

Cost(r) == Amount(r.Sales) - Amount(r.Profit)

\* sim_df['New_Profit'] = sim_df['New_Sales'] - cost; NaN stays NaN
NewProfitNoCost(rows, newSales) == newSales

NewProfit(rows, newSales) ==
    [i \in DOMAIN rows |->
        IF newSales[i] = NaN THEN NaN
        ELSE <<newSales[i][1] - Cost(rows[i])>>] \o <<>>

\* Series.sum() of a column that can miss values: NaN is skipped
RECURSIVE NanSumFrom(_, _)
NanSumFrom(col, i) ==
    IF i > Len(col) THEN 0
    ELSE (IF col[i] = NaN THEN 0 ELSE col[i][1]) + NanSumFrom(col, i + 1)

NanSum(col) == NanSumFrom(col, 1)

\* Series.sum() of an input column, in the unit of the result
RECURSIVE ColumnSumFrom(_, _, _)
ColumnSumFrom(rows, col, i) ==
    IF i > Len(rows) THEN 0
    ELSE Amount(rows[i][col]) + ColumnSumFrom(rows, col, i + 1)

ColumnSum(rows, col) == ColumnSumFrom(rows, col, 1)

\* the dict returned for a table that is not empty
Impact(rows, cap, e) ==
    LET newSales  == NewSales(rows, cap, e)
        newProfit == NewProfit(rows, newSales)
    IN  [original_profit |-> ColumnSum(rows, "Profit"),
         new_profit      |-> NanSum(newProfit),
         profit_gain     |-> NanSum(newProfit) - ColumnSum(rows, "Profit"),
         revenue_risk    |-> ColumnSum(rows, "Sales") - NanSum(newSales)]

\* sim_df when the function returns: the input columns and the two new ones
SimDf(rows, cap, e) ==
    LET newSales  == NewSales(rows, cap, e)
        newProfit == NewProfit(rows, newSales)
    IN  [i \in DOMAIN rows |->
            [Discount   |-> rows[i].Discount,
             Sales      |-> rows[i].Sales,
             Profit     |-> rows[i].Profit,
             New_Sales  |-> newSales[i],
             New_Profit |-> newProfit[i]]] \o <<>>

\* The caller's table after the call.  sim_df is df.copy(), so the columns
\* written to sim_df are not written to df.
DfAliased(t, sim) == <<sim, t[2] \cup {"New_Sales", "New_Profit"}, t[3]>>

DfAfterCopy(t, sim) == t

calculate_roi_impact ==
    /\ pc = "ready"
    /\ call' = "calculate_roi_impact"
    /\ IF df = <<>>
       THEN /\ roi' = ZeroImpact
            /\ pc' = "returned"
            /\ UNCHANGED table
       ELSE IF RoiRaises(df, df_columns)
       THEN /\ pc' = "raised"
            /\ UNCHANGED <<roi, table>>
       ELSE LET t == DfAfterCopy(table, SimDf(df, discount_cap, elasticity))
            IN  /\ roi' = Impact(df, discount_cap, elasticity)
                /\ pc' = "returned"
                /\ df' = t[1]
                /\ df_columns' = t[2]
                /\ order_date_dtype' = t[3]
    /\ UNCHANGED <<snapshot_date, discount_cap, elasticity, rfm, handled,
                   validation, dash>>

----------------------------------------------------------------------------
(* validate_data *)

required_columns ==
    <<"Order_Date", "Customer_ID", "Order_ID", "Sales", "Profit", "Discount",
      "Region", "Category", "Segment">>

CriticalColsNoSales == <<"Order_Date", "Customer_ID">>

critical_cols == <<"Order_Date", "Customer_ID", "Sales">>

\* the dtype of a date column, and the dtype of a column of strings
Datetime64 == "datetime64[ns]"
Object == "object"

\* A row may carry a field null, the set of the columns whose cell of the
\* row is null; a row without the field has no null cell.
IsNull(r, col) == "null" \in DOMAIN r /\ col \in r.null

\* df[col].isnull().any()
AnyNull(rows, col) == \E i \in DOMAIN rows : IsNull(rows[i], col)

\* (df['Sales'] < 0).any(); a null cell compares False
AnyNegativeSales(rows) ==
    \E i \in DOMAIN rows : ~IsNull(rows[i], "Sales") /\ rows[i].Sales < 0

\* df.empty: an axis of the table has length 0
EmptyNoColumns(rows, cols) == cols = {}

Empty(rows, cols) == rows = <<>> \/ cols = {}

\* the entries of a list for which keep holds, in the order of the list
RECURSIVE Filter(_, _)
Filter(list, keep) ==
    IF list = <<>> THEN <<>>
    ELSE (IF Head(list) \in keep THEN <<Head(list)>> ELSE <<>>)
         \o Filter(Tail(list), keep)

\* missing_cols, in the order of required_columns
MissingCols(cols) ==
    Filter(required_columns,
           {required_columns[i] : i \in DOMAIN required_columns} \ cols)

\* the error messages; detail is the text formatted into the message
MissingError(missing) == [kind |-> "Missing required columns", detail |-> missing]
EmptyError == [kind |-> "DataFrame is empty", detail |-> <<>>]
NullError(col) == [kind |-> "Null values found in", detail |-> <<col>>]
DtypeError == [kind |-> "Order_Date must be datetime type", detail |-> <<>>]
NegativeSalesError ==
    [kind |-> "Warning: Negative sales values detected", detail |-> <<>>]

\* errors after the check of the required columns
MissingErrors(cols) ==
    IF MissingCols(cols) # <<>> THEN <<MissingError(MissingCols(cols))>>
    ELSE <<>>

\* errors appended by the loop over critical_cols, from position i on
RECURSIVE NullErrorsFrom(_, _, _)
NullErrorsFrom(rows, cols, i) ==
    IF i > Len(critical_cols) THEN <<>>
    ELSE (IF critical_cols[i] \in cols /\ AnyNull(rows, critical_cols[i])
          THEN <<NullError(critical_cols[i])>> ELSE <<>>)
         \o NullErrorsFrom(rows, cols, i + 1)

NullErrors(rows, cols) == NullErrorsFrom(rows, cols, 1)

DtypeErrors(cols, dtype) ==
    IF "Order_Date" \in cols /\ dtype # Datetime64 THEN <<DtypeError>>
    ELSE <<>>

NegativeErrors(rows, cols) ==
    IF "Sales" \in cols /\ AnyNegativeSales(rows) THEN <<NegativeSalesError>>
    ELSE <<>>

\* the checks that follow the check for an empty table
ContentErrorsFirst(rows, cols, dtype) ==
    IF NullErrors(rows, cols) # <<>> THEN <<Head(NullErrors(rows, cols))>>
    ELSE IF DtypeErrors(cols, dtype) # <<>> THEN DtypeErrors(cols, dtype)
    ELSE NegativeErrors(rows, cols)

ContentErrors(rows, cols, dtype) ==
    NullErrors(rows, cols) \o DtypeErrors(cols, dtype)
        \o NegativeErrors(rows, cols)

\* the dict validate_data returns
ValidateValidBeforeEmpty(rows, cols, dtype) ==
    IF Empty(rows, cols)
    THEN [valid |-> MissingErrors(cols) = <<>>,
          errors |-> MissingErrors(cols) \o <<EmptyError>>]
    ELSE LET errors == MissingErrors(cols) \o ContentErrors(rows, cols, dtype)
         IN  [valid |-> Len(errors) = 0, errors |-> errors]

Validate(rows, cols, dtype) ==
    IF Empty(rows, cols)
    THEN [valid |-> FALSE, errors |-> MissingErrors(cols) \o <<EmptyError>>]
    ELSE LET errors == MissingErrors(cols) \o ContentErrors(rows, cols, dtype)
         IN  [valid |-> Len(errors) = 0, errors |-> errors]

validate_data ==
    /\ pc = "ready"
    /\ call' = "validate_data"
    /\ validation' = Validate(df, df_columns, order_date_dtype)
    /\ pc' = "returned"
    /\ UNCHANGED <<table, snapshot_date, discount_cap, elasticity, rfm,
                   handled, roi, dash>>

----------------------------------------------------------------------------
(* Specifications *)

\* the columns of the tables of the general specification
OrderColumns == {"Customer_ID", "Order_Date", "Order_ID", "Sales"}

NoImpact == <<>>
NoValidation == <<>>

\* no function has been called, outside a run of the dashboard
Ready ==
    /\ pc = "ready"
    /\ db_error = FALSE
    /\ f_df = <<>>
    /\ call = "none"
    /\ rfm = NoResult
    /\ handled = {}
    /\ roi = NoImpact
    /\ validation = NoValidation

Init ==
    /\ df \in Tables
    /\ df_columns = OrderColumns
    /\ order_date_dtype = Datetime64
    /\ snapshot_date \in Snapshots
    /\ discount_cap = 2
    /\ elasticity = 5
    /\ Ready

Next == calculate_rfm \/ calculate_roi_impact \/ validate_data

Spec == Init /\ [][Next]_vars

\* calculate_rfm on tables of up to MaxScoreCust customers
InitScore ==
    /\ \E n \in 1..MaxScoreCust :
         \E hs \in [1..n -> Histories] : df = HistoryTable(hs, n)
    /\ df_columns = OrderColumns
    /\ order_date_dtype = Datetime64
    /\ snapshot_date = None
    /\ discount_cap = 2
    /\ elasticity = 5
    /\ Ready

SpecScore == InitScore /\ [][calculate_rfm]_vars

\* The three functions on the tables of the simulator: discounts, a cap and
\* an elasticity between 0 and 1 in tenths, amounts of sales that are not
\* negative, profits of either sign.
MaxRoiRows == 2
RoiDiscounts == {0, 2, 3, 10}
RoiSales == {0, 2}
RoiProfits == {-1, 1}
DiscountCaps == {0, 2, 10}
Elasticities == {0, 5, 10}

RoiRecord == [Discount : RoiDiscounts, Sales : RoiSales, Profit : RoiProfits]

InitRoi ==
    /\ \E n \in 0..MaxRoiRows : df \in [1..n -> RoiRecord]
    /\ df_columns = RoiInputColumns
    /\ order_date_dtype = Datetime64
    /\ snapshot_date = None
    /\ discount_cap \in DiscountCaps
    /\ elasticity \in Elasticities
    /\ Ready

SpecRoi == InitRoi /\ [][Next]_vars

\* validate_data on tables that lack some of the required columns, hold
\* null cells, a negative amount of sales or an Order_Date column of strings
MaxValidateRows == 2
MissingChoices == {"Order_Date", "Customer_ID", "Sales", "Profit", "Region"}
NullChoices ==
    {{}, {"Order_Date"}, {"Customer_ID"}, {"Sales"}, {"Order_ID"},
     {"Profit"}, {"Discount"}, {"Order_Date", "Sales"}}
ValidateSales == {-1, 2}

RequiredSet == {required_columns[i] : i \in DOMAIN required_columns}

\* the column sets: no column at all, the required columns but some of
\* MissingChoices, or the required columns but one
ColumnSets ==
    {{}} \cup {RequiredSet \ m : m \in SUBSET MissingChoices}
         \cup {RequiredSet \ {c} : c \in RequiredSet}

CellValue(col, sales) ==
    CASE col = "Sales" -> sales
      [] col \in {"Region", "Category", "Segment"} -> "East"
      [] col = "Discount" -> 0
      [] OTHER -> 1

\* a row of the columns cols with the null cells nulls
ValidateRow(cols, sales, nulls) ==
    [c \in cols \cup {"null"} |->
        IF c = "null" THEN nulls \cap cols ELSE CellValue(c, sales)]

ValidateRows(cols) ==
    {ValidateRow(cols, sales, nulls) : sales \in ValidateSales,
                                       nulls \in NullChoices}

InitValidate ==
    /\ df_columns \in ColumnSets
    /\ \E n \in 0..(IF df_columns = {} THEN 0 ELSE MaxValidateRows) :
         df \in [1..n -> ValidateRows(df_columns)]
    /\ order_date_dtype \in {Datetime64, Object}
    /\ snapshot_date = None
    /\ discount_cap = 2
    /\ elasticity = 5
    /\ Ready

SpecValidate == InitValidate /\ [][validate_data]_vars

\* The three functions called directly on tables that have any subset of
\* the columns calculate_rfm and calculate_roi_impact read.
MaxDirectRows == 2

CoreColumns == RfmInputColumns \cup RoiInputColumns

\* the cell of the column col in the row variant k
CoreCell(col, k) ==
    CASE col = "Customer_ID" -> k
      [] col = "Order_Date" -> IF k = 1 THEN 1 ELSE 4
      [] col = "Order_ID" -> k
      [] col = "Sales" -> 2
      [] col = "Discount" -> IF k = 1 THEN 0 ELSE 3
      [] col = "Profit" -> 1

CoreRows(cols) == {[c \in cols |-> CoreCell(c, k)] : k \in 1..2}

InitDirect ==
    /\ df_columns \in SUBSET CoreColumns
    /\ \E n \in 0..(IF df_columns = {} THEN 0 ELSE MaxDirectRows) :
         df \in [1..n -> CoreRows(df_columns)]
    /\ order_date_dtype = Datetime64
    /\ snapshot_date = None
    /\ discount_cap = 2
    /\ elasticity = 5
    /\ Ready

SpecDirect == InitDirect /\ [][Next]_vars

----------------------------------------------------------------------------
(* A run of the dashboard (src/Superstore_Dashboard.py) *)

\* The table orders of the database.  The cell of Order_Date is text: <<d>>
\* is the text of the date d, <<>> is text that is no date.
MaxDashRows == 2
RawDates == {<<1>>, <<4>>, <<>>}
DashRegions == {"East", "West"}

DashRecord ==
    [Customer_ID : CustomerIds, Order_Date : RawDates, Order_ID : {1},
     Sales : ValidateSales, Profit : {1}, Discount : {3},
     Region : DashRegions, Category : {"Furniture"}, Segment : {"Consumer"}]

\* the columns of the table orders: all the required ones, or all but one
DashColumnSets ==
    {RequiredSet, RequiredSet \ {"Region"}, RequiredSet \ {"Order_Date"}}

DashRows(cols) == {[c \in cols |-> r[c]] : r \in DashRecord}

\* the value of a cell that holds NaT
NaT == 0

\* pd.to_datetime(df['Order_Date'], errors='coerce'): text that is no date
\* becomes NaT, a null cell
ToDatetime(rows) ==
    [i \in DOMAIN rows |->
        [c \in DOMAIN rows[i] \cup {"null"} |->
            IF c = "null"
            THEN (IF rows[i].Order_Date = <<>> THEN {"Order_Date"} ELSE {})
            ELSE IF c = "Order_Date"
            THEN (IF rows[i].Order_Date = <<>> THEN NaT
                  ELSE rows[i].Order_Date[1])
            ELSE rows[i][c]]] \o <<>>

\* Timestamp.date(): the day of a date
DateOf(t) == t \div DayTicks

\* summary['date_range'] and summary['regions'] of get_data_summary
MinDate(rows) ==
    CHOOSE d \in {rows[i].Order_Date : i \in DOMAIN rows} :
        \A i \in DOMAIN rows : d <= rows[i].Order_Date

SummaryRegions(rows) == {rows[i].Region : i \in DOMAIN rows}

SummaryCategories(rows) == {rows[i].Category : i \in DOMAIN rows}

\* df[mask] for the selected dates, regions and categories
Filtered(rows, lo, hi, region, categories) ==
    SelectSeq(rows, LAMBDA r : /\ DateOf(r.Order_Date) >= lo
                               /\ DateOf(r.Order_Date) <= hi
                               /\ r.Region \in region
                               /\ r.Category \in categories)

\* if f_df.empty: the run stops
NoMatchIgnored(rows, cols) == FALSE

NoMatch(rows, cols) == Empty(rows, cols)

\* main up to the filters: load_data_sql reads the table, converts the
\* dates and validates; the run stops when it returns None or an empty
\* table
main_load ==
    /\ pc = "main"
    /\ IF db_error \/ "Order_Date" \notin df_columns
       THEN /\ pc' = "stopped"
            /\ UNCHANGED <<table, validation, call>>
       ELSE LET converted == ToDatetime(df)
                v == Validate(converted, df_columns, Datetime64)
            IN  /\ df' = converted
                /\ order_date_dtype' = Datetime64
                /\ validation' = v
                /\ call' = "validate_data"
                /\ pc' = IF ~v.valid \/ Empty(converted, df_columns)
                         THEN "stopped" ELSE "filters"
                /\ UNCHANGED df_columns
    /\ UNCHANGED <<snapshot_date, discount_cap, elasticity, rfm, handled,
                   roi, dash>>

\* the sidebar filters: a range of days within the range of the data, the
\* selected regions and categories (all of them when none is selected); a
\* cleared date input makes the mask raise, and the handler keeps the whole
\* table; the run stops when no row matches
main_filters ==
    /\ pc = "filters"
    /\ \E lo, hi \in DateOf(MinDate(df))..DateOf(MaxOrderDate(df)),
          selected \in SUBSET SummaryRegions(df), cleared \in BOOLEAN :
          LET region == IF selected = {} THEN SummaryRegions(df)
                        ELSE selected
              f == IF cleared THEN df
                   ELSE Filtered(df, lo, hi, region, SummaryCategories(df))
          IN  /\ lo <= hi
              /\ f_df' = f
              /\ pc' = IF NoMatch(f, df_columns) THEN "stopped" ELSE "tab1"
    /\ UNCHANGED <<table, snapshot_date, discount_cap, elasticity, call,
                   rfm, handled, roi, validation, db_error>>

\* rfm = calculate_rfm(f_df) inside try/except
RfmOfFiltered ==
    /\ call' = "calculate_rfm"
    /\ IF f_df = <<>>
       THEN /\ rfm' = [columns |-> EmptyColumns, rows |-> <<>>]
            /\ handled' = {}
       ELSE IF RfmRaises(f_df, df_columns)
       THEN UNCHANGED <<rfm, handled>>
       ELSE LET a  == Agg(f_df, None)
                sc == ScoreLoop(a)
            IN  /\ rfm' = [columns |-> RfmColumns, rows |-> Scored(a, sc)]
                /\ handled' = Handled(sc)

\* tab 1: the top customers
tab1_rfm ==
    /\ pc = "tab1"
    /\ RfmOfFiltered
    /\ pc' = "tab4"
    /\ UNCHANGED <<table, snapshot_date, discount_cap, elasticity, roi,
                   validation, dash>>

\* the positions of the two sliders of tab 4, in tenths: the cap goes from 0
\* to 0.5, the elasticity from 0 to 1
SliderCaps == {0, 2, 5}
SliderElasticities == {0, 5, 10}

\* tab 4: the simulator with the cap and the elasticity of the sliders
tab4_roi ==
    /\ pc = "tab4"
    /\ \E cap \in SliderCaps, e \in SliderElasticities :
          /\ discount_cap' = cap
          /\ elasticity' = e
          /\ roi' = IF f_df = <<>> THEN ZeroImpact
                    ELSE IF RoiRaises(f_df, df_columns) THEN roi
                    ELSE Impact(f_df, cap, e)
    /\ call' = "calculate_roi_impact"
    /\ pc' = "tab5"
    /\ UNCHANGED <<table, snapshot_date, rfm, handled, validation, dash>>

\* tab 5: the export of the RFM segments
tab5_export ==
    /\ pc = "tab5"
    /\ RfmOfFiltered
    /\ pc' = "done"
    /\ UNCHANGED <<table, snapshot_date, discount_cap, elasticity, roi,
                   validation, dash>>

InitDashboard ==
    /\ db_error \in BOOLEAN
    /\ IF db_error
       THEN df = <<>> /\ df_columns = {}
       ELSE /\ df_columns \in DashColumnSets
            /\ \E n \in 0..MaxDashRows : df \in [1..n -> DashRows(df_columns)]
    /\ order_date_dtype = Object
    /\ snapshot_date = None
    /\ discount_cap = 2
    /\ elasticity = 5
    /\ pc = "main"
    /\ call = "none"
    /\ rfm = NoResult
    /\ handled = {}
    /\ roi = NoImpact
    /\ validation = NoValidation
    /\ f_df = <<>>

NextDashboard ==
    main_load \/ main_filters \/ tab1_rfm \/ tab4_roi \/ tab5_export

SpecDashboard == InitDashboard /\ [][NextDashboard]_vars

----------------------------------------------------------------------------
(* Properties of calculate_rfm *)

Returned == pc = "returned" /\ call = "calculate_rfm"

Out == rfm.rows

InputCustomers == {df[i].Customer_ID : i \in DOMAIN df}

RowsOf(c) == {j \in DOMAIN df : df[j].Customer_ID = c}

OutRowsOf(c) == {i \in DOMAIN Out : Out[i].Customer_ID = c}

\* C1: for a non-empty table the result has exactly one row per distinct
\* Customer_ID of the input and no other row, and the row's Frequency is the
\* number of input rows carrying that Customer_ID.
C1_OneRowPerCustomer ==
    (Returned /\ df # <<>>) =>
        /\ \A c \in InputCustomers : Cardinality(OutRowsOf(c)) = 1
        /\ \A i \in DOMAIN Out :
              /\ Out[i].Customer_ID \in InputCustomers
              /\ Out[i].Frequency = Cardinality(RowsOf(Out[i].Customer_ID))

\* two customers, one of them with two line items of the same order
C1_Witness ==
    /\ Returned
    /\ Len(Out) = 2
    /\ \E i \in DOMAIN Out :
          /\ Out[i].Frequency = 2
          /\ \A j, k \in RowsOf(Out[i].Customer_ID) : df[j].Order_ID = df[k].Order_ID

\* the sum of Sales over the input rows with index in J
RECURSIVE SalesOver(_)
SalesOver(J) ==
    IF J = {} THEN 0
    ELSE LET j == CHOOSE x \in J : TRUE
         IN  df[j].Sales + SalesOver(J \ {j})

\* C2: for a non-empty table every customer's Monetary is the sum of Sales
\* over exactly the input rows of that customer.
C2_MonetaryIsSum ==
    (Returned /\ df # <<>>) =>
        \A i \in DOMAIN Out :
            Out[i].Monetary = SalesOver(RowsOf(Out[i].Customer_ID))

\* a customer with two rows of different amounts, and another customer
C2_Witness ==
    /\ Returned
    /\ Len(Out) = 2
    /\ \E i \in DOMAIN Out :
          /\ Out[i].Monetary = 3
          /\ Cardinality(RowsOf(Out[i].Customer_ID)) = 2

\* the latest Order_Date among the input rows with index in J
LatestOver(J) ==
    CHOOSE d \in {df[j].Order_Date : j \in J} : \A j \in J : df[j].Order_Date <= d

\* the snapshot the call works with: the argument, or the latest order + 1 day
UsedSnapshot ==
    IF snapshot_date = None THEN LatestOver(DOMAIN df) + DayTicks
    ELSE snapshot_date[1]

\* the scenario of the specification: C1 orders on day 0 and day 9, C2 on day 31
ScenarioTable ==
    << [Customer_ID |-> 1, Order_Date |-> 0,             Order_ID |-> 1, Sales |-> 100],
       [Customer_ID |-> 1, Order_Date |-> 9 * DayTicks,  Order_ID |-> 2, Sales |-> 200],
       [Customer_ID |-> 2, Order_Date |-> 31 * DayTicks, Order_ID |-> 3, Sales |-> 500] >>

\* C3: the snapshot is the argument when given, otherwise max(Order_Date) + 1
\* day; a customer's Recency is the number of whole days from the customer's
\* latest order to the snapshot; it is >= 0 whenever the snapshot is not before
\* the latest order of the table; with the default snapshot every Recency is
\* >= 1 and the holder of the latest order has Recency 1; the scenario gives
\* Recency 23 and 1.
C3_Recency ==
    /\ (Returned /\ df # <<>>) =>
          /\ \A i \in DOMAIN Out :
                LET delta == UsedSnapshot - LatestOver(RowsOf(Out[i].Customer_ID))
                IN  /\ Out[i].Recency * DayTicks <= delta
                    /\ delta < (Out[i].Recency + 1) * DayTicks
          /\ UsedSnapshot >= LatestOver(DOMAIN df) =>
                \A i \in DOMAIN Out : Out[i].Recency >= 0
          /\ snapshot_date = None =>
                \A i \in DOMAIN Out :
                    /\ Out[i].Recency >= 1
                    /\ LatestOver(RowsOf(Out[i].Customer_ID)) = LatestOver(DOMAIN df)
                          => Out[i].Recency = 1
    /\ Column(RfmRows(ScenarioTable, None), "Recency") = <<23, 1>>

\* default snapshot, two customers, the older one two and a half days behind
C3_Witness ==
    /\ Returned
    /\ snapshot_date = None
    /\ Len(Out) = 2
    /\ \E i, j \in DOMAIN Out : Out[i].Recency = 1 /\ Out[j].Recency = 2

\* C4: for a non-empty table of any number of customers, 1 and 2 included, the
\* call returns and every R and F is an integer of 1..5.
C4_ScoresInRange ==
    /\ pc \in {"ready", "returned"}
    /\ (Returned /\ df # <<>>) =>
          /\ Len(Out) = Cardinality(InputCustomers)
          /\ \A i \in DOMAIN Out : Out[i].R \in 1..5 /\ Out[i].F \in 1..5

\* a call on two customers returned scores taken from the bins
C4_Witness ==
    /\ Returned
    /\ Len(Out) = 2
    /\ handled = {}
    /\ \E i \in DOMAIN Out : Out[i].R = 5 /\ Out[i].F = 1

Scores(i) == {Out[i].R, Out[i].F, Out[i].M}

\* C5 as stated: with fewer than 5 customers every customer gets the neutral
\* score 3 for the scored metrics.
C5_FallbackBelowFive ==
    (Returned /\ df # <<>> /\ Len(Out) < 5) =>
        \A i \in DOMAIN Out : Scores(i) = {MiddleScore}

\* C5 amended: the neutral score 3 is assigned, for every metric and to the
\* only customer, exactly when the table has a single customer; with two or
\* more customers no metric falls back and the scores are the labels of the
\* bins, the first-ranked and the last-ranked customer taking the labels of
\* bins 1 and 5.
C5_FallbackOnlySingle ==
    (Returned /\ df # <<>>) =>
        /\ Len(Out) = 1 =>
              /\ handled = {"Recency", "Frequency", "Monetary"}
              /\ Scores(1) = {MiddleScore}
        /\ Len(Out) >= 2 =>
              /\ handled = {}
              /\ \A s \in {1, 5} :
                    /\ \E i \in DOMAIN Out : Out[i].R = s
                    /\ \E i \in DOMAIN Out : Out[i].F = s
                    /\ \E i \in DOMAIN Out : Out[i].M = s

\* three customers, scored from the bins without fallback
C5_Witness ==
    /\ Returned
    /\ Len(Out) = 3
    /\ handled = {}
    /\ \E i \in DOMAIN Out : Out[i].R = 5 /\ Out[i].F = 5

MinOf(col) == CHOOSE v \in {Out[i][col] : i \in DOMAIN Out} :
                  \A i \in DOMAIN Out : v <= Out[i][col]

MaxOf(col) == CHOOSE v \in {Out[i][col] : i \in DOMAIN Out} :
                  \A i \in DOMAIN Out : Out[i][col] <= v

Holders(col, v) == {i \in DOMAIN Out : Out[i][col] = v}

\* the holder that rank(method='first') ranks first, and the one it ranks last
FirstOf(I) == CHOOSE i \in I : \A j \in I : i <= j

LastOf(I) == CHOOSE i \in I : \A j \in I : j <= i

\* C6 as stated: with at least two customers every customer of minimal Recency
\* has R = 5, every customer of maximal Recency has R = 1 and every customer
\* of maximal Frequency has F = 5.
C6_ExtremesEveryHolder ==
    (Returned /\ Len(Out) >= 2) =>
        /\ \A i \in Holders("Recency", MinOf("Recency")) : Out[i].R = 5
        /\ \A i \in Holders("Recency", MaxOf("Recency")) : Out[i].R = 1
        /\ \A i \in Holders("Frequency", MaxOf("Frequency")) : Out[i].F = 5

\* C6 amended: with at least two customers, among the customers of minimal
\* Recency the one with the smallest Customer_ID has R = 5, among those of
\* maximal Recency the one with the largest Customer_ID has R = 1, and among
\* those of maximal Frequency the one with the largest Customer_ID has F = 5;
\* so a customer that alone holds the extreme value receives the score.
C6_ExtremesRankedHolder ==
    (Returned /\ Len(Out) >= 2) =>
        /\ Out[FirstOf(Holders("Recency", MinOf("Recency")))].R = 5
        /\ Out[LastOf(Holders("Recency", MaxOf("Recency")))].R = 1
        /\ Out[LastOf(Holders("Frequency", MaxOf("Frequency")))].F = 5
        /\ \A i, j \in DOMAIN Out : i < j => Out[i].Customer_ID < Out[j].Customer_ID

\* six customers, two of them tied on the minimal Recency with different R
C6_Witness ==
    /\ Returned
    /\ Len(Out) = 6
    /\ \E i, j \in Holders("Recency", MinOf("Recency")) : Out[i].R = 5 /\ Out[j].R < 5
    /\ MinOf("Recency") < MaxOf("Recency")

ScoreCount(col, s) == Cardinality({i \in DOMAIN Out : Out[i][col] = s})

\* C7: the ranked customers are split into 5 buckets of equal size: when the
\* number n of customers is a multiple of 5 every score 1..5 is given to
\* exactly n/5 customers, for each of R, F and M, and for every other n >= 2
\* the numbers of customers of any two scores differ by at most one.
C7_EqualBuckets ==
    (Returned /\ Len(Out) >= 2) =>
        \A col \in {"R", "F", "M"} :
            LET n == [s \in 1..5 |-> ScoreCount(col, s)] \o <<>>
            IN  /\ Len(Out) % 5 = 0 => \A s \in 1..5 : n[s] * 5 = Len(Out)
                /\ \A s, t \in 1..5 : n[s] - n[t] <= 1

\* ten customers with tied metrics, two per score
C7_Witness ==
    /\ Returned
    /\ Len(Out) = 10
    /\ Cardinality(Holders("Frequency", MinOf("Frequency"))) >= 3
    /\ \A s \in 1..5 : ScoreCount("F", s) = 2

\* the index of the first input row of customer c
FirstSeen(c) == CHOOSE j \in RowsOf(c) : \A k \in RowsOf(c) : j <= k

\* the ranks rank(method='first') gives to the rows of the result on a metric
RanksOn(col) == Rank(Column(Out, col))

\* C8 as stated: of two customers tied on a scored metric, the one whose first
\* order row comes earlier in the input table is ranked lower.
C8_TieFirstSeen ==
    Returned =>
        \A col \in MetricColumns : \A i, j \in DOMAIN Out :
            (/\ Out[i][col] = Out[j][col]
             /\ FirstSeen(Out[i].Customer_ID) < FirstSeen(Out[j].Customer_ID))
            => RanksOn(col)[i] < RanksOn(col)[j]

\* C8 amended: of two customers tied on a scored metric, the one with the
\* smaller Customer_ID (the order of the sorted group keys) is ranked lower,
\* whatever the order of the input rows; so it has the R not below and the F
\* and M not above those of the other.
C8_TieByCustomerId ==
    Returned =>
        \A col \in MetricColumns : \A i, j \in DOMAIN Out :
            (/\ Out[i][col] = Out[j][col]
             /\ Out[i].Customer_ID < Out[j].Customer_ID)
            => /\ RanksOn(col)[i] < RanksOn(col)[j]
               /\ col = "Recency"   => Out[i].R >= Out[j].R
               /\ col = "Frequency" => Out[i].F <= Out[j].F
               /\ col = "Monetary"  => Out[i].M <= Out[j].M

\* two customers tied on Recency, the one with the larger Customer_ID seen
\* first, the one with the smaller Customer_ID scored as the more recent
C8_Witness ==
    /\ Returned
    /\ Len(Out) = 2
    /\ Out[1].Recency = Out[2].Recency
    /\ FirstSeen(Out[2].Customer_ID) < FirstSeen(Out[1].Customer_ID)
    /\ Out[1].R = 5 /\ Out[2].R = 1

SegmentNames == {"Champions", "At Risk", "Regular"}

\* C9: every row's Segment is one of Champions, At Risk, Regular, the first that
\* matches: Champions iff R >= 4 and F >= 4, otherwise At Risk iff R <= 2 and
\* F >= 4, otherwise Regular; M has no part in it.
C9_SegmentRule ==
    Returned =>
        \A i \in DOMAIN Out :
            /\ Out[i].Segment \in SegmentNames
            /\ Out[i].Segment = "Champions" <=> (Out[i].R >= 4 /\ Out[i].F >= 4)
            /\ Out[i].Segment = "At Risk" <=> (Out[i].R <= 2 /\ Out[i].F >= 4)
            /\ \A j \in DOMAIN Out :
                  (Out[i].R = Out[j].R /\ Out[i].F = Out[j].F)
                  => Out[i].Segment = Out[j].Segment

\* one call that yields all three segments, and two rows that differ in M only
C9_Witness ==
    /\ Returned
    /\ \A n \in SegmentNames : \E i \in DOMAIN Out : Out[i].Segment = n
    /\ \E i, j \in DOMAIN Out :
          Out[i].R = Out[j].R /\ Out[i].F = Out[j].F /\ Out[i].M # Out[j].M

Range(q) == {q[i] : i \in DOMAIN q}

\* C10: on an empty table the call returns no rows and the declared columns
\* Customer_ID, Recency, Frequency, Monetary, R, F, Segment.
C10_EmptyColumns ==
    (Returned /\ df = <<>>) =>
        /\ Out = <<>>
        /\ Range(rfm.columns) = {"Customer_ID", "Recency", "Frequency",
                                 "Monetary", "R", "F", "Segment"}

----------------------------------------------------------------------------
(* Frequency and the line items of an order *)

\* the Order_IDs among the rows of customer c
OrdersOf(c) == {df[j].Order_ID : j \in RowsOf(c)}

\* C11 as stated: Frequency is the number of distinct Order_ID values among
\* the customer's rows, so that several line items of one order count once,
\* and it is at least 1.
C11_FrequencyDistinctOrders ==
    (Returned /\ df # <<>>) =>
        \A i \in DOMAIN Out :
            /\ Out[i].Frequency = Cardinality(OrdersOf(Out[i].Customer_ID))
            /\ Out[i].Frequency >= 1

\* C11: Frequency is the number of the customer's rows: every line item
\* counts, also the line items that share an Order_ID.  It is at least 1 and
\* never below the number of distinct Order_ID values.
C11_FrequencyCountsLineItems ==
    (Returned /\ df # <<>>) =>
        \A i \in DOMAIN Out :
            /\ Out[i].Frequency = Cardinality(RowsOf(Out[i].Customer_ID))
            /\ Out[i].Frequency >= 1
            /\ Out[i].Frequency >= Cardinality(OrdersOf(Out[i].Customer_ID))

\* a customer with two line items of one order has Frequency 2
C11_Witness ==
    /\ Returned
    /\ \E i \in DOMAIN Out :
        /\ Out[i].Frequency = 2
        /\ Cardinality(OrdersOf(Out[i].Customer_ID)) = 1

----------------------------------------------------------------------------
(* Properties of calculate_roi_impact *)

RoiCalled == call = "calculate_roi_impact"
RoiReturned == pc = "returned" /\ RoiCalled

\* some row's discount is above the cap
Capped(i) == df[i].Discount > discount_cap

\* C12: for a table that is not empty, a cap at or above every row's
\* Discount changes nothing: profit_gain is 0, revenue_risk is 0 and
\* new_profit equals original_profit.
C12_NoRowAboveCap ==
    (RoiReturned /\ df # <<>> /\ \A i \in DOMAIN df : ~Capped(i)) =>
        /\ roi.profit_gain = 0
        /\ roi.revenue_risk = 0
        /\ roi.new_profit = roi.original_profit

\* two rows with sales, one discounted exactly at the cap, a positive
\* elasticity
C12_Witness ==
    /\ RoiReturned
    /\ Len(df) = 2
    /\ \A i \in DOMAIN df : ~Capped(i) /\ df[i].Sales > 0
    /\ \E i \in DOMAIN df : df[i].Discount = discount_cap /\ discount_cap > 0
    /\ elasticity > 0
    /\ roi.profit_gain = 0
    /\ roi.original_profit # 0

\* C13: with discounts, cap and elasticity between 0 and 1 and amounts of
\* sales that are not negative, revenue_risk is never negative.
C13_RiskNotNegative ==
    (RoiReturned /\ \A i \in DOMAIN df : df[i].Sales >= 0) =>
        roi.revenue_risk >= 0

\* a call in which the cap costs revenue
C13_Witness ==
    /\ RoiReturned
    /\ \E i \in DOMAIN df : Capped(i)
    /\ roi.revenue_risk > 0

\* C14: for an empty table the function raises no error and returns 0 for
\* original_profit, new_profit, profit_gain and revenue_risk, whatever the
\* cap and the elasticity.
C14_EmptyTableZero ==
    (RoiCalled /\ df = <<>>) =>
        /\ pc = "returned"
        /\ roi = [original_profit |-> 0, new_profit |-> 0,
                  profit_gain |-> 0, revenue_risk |-> 0]

\* the call on the empty table with the cap 0 and the elasticity 1
C14_Witness ==
    /\ RoiReturned
    /\ df = <<>>
    /\ discount_cap = 0
    /\ elasticity = Unit
    /\ roi.revenue_risk = 0

\* The reference projection of one row, in hundredths: the volume lost, the
\* new sales and the new profit.
RefVolumeLoss(r) ==
    IF r.Discount > discount_cap
    THEN (r.Discount - discount_cap) * elasticity
    ELSE 0

RefNewSales(r) == r.Sales * (Unit * Unit - RefVolumeLoss(r))

RefNewProfit(r) == RefNewSales(r) - (r.Sales - r.Profit) * Unit * Unit

RECURSIVE SeqSum(_)
SeqSum(s) == IF s = <<>> THEN 0 ELSE Head(s) + SeqSum(Tail(s))

RefOriginalProfit == SeqSum([i \in DOMAIN df |-> df[i].Profit * Unit * Unit])
RefNewProfitSum == SeqSum([i \in DOMAIN df |-> RefNewProfit(df[i])])
RefSalesSum == SeqSum([i \in DOMAIN df |-> df[i].Sales * Unit * Unit])
RefNewSalesSum == SeqSum([i \in DOMAIN df |-> RefNewSales(df[i])])

\* the table of the scenario: sales 1000 and 2000, profits 200 and 400,
\* discounts 0.3 and 0.4
ScenarioOrders ==
    <<[Discount |-> 3, Sales |-> 1000, Profit |-> 200],
      [Discount |-> 4, Sales |-> 2000, Profit |-> 400]>>

\* C15: the result is the reference projection: per row the volume loss is
\* (Discount - cap) * elasticity above the cap and 0 otherwise, new sales
\* are Sales * (1 - volume loss), the cost is Sales - Profit, the new profit
\* is new sales - cost; the result holds the sums.  With the cap 0.2 and the
\* elasticity 0.5 the scenario gives 600, 350, -250 and 250.
C15_ReferenceProjection ==
    /\ (RoiReturned /\ df # <<>>) =>
          roi = [original_profit |-> RefOriginalProfit,
                 new_profit      |-> RefNewProfitSum,
                 profit_gain     |-> RefNewProfitSum - RefOriginalProfit,
                 revenue_risk    |-> RefSalesSum - RefNewSalesSum]
    /\ Impact(ScenarioOrders, 2, 5) =
          [original_profit |-> Amount(600), new_profit |-> Amount(350),
           profit_gain |-> Amount(0 - 250), revenue_risk |-> Amount(250)]

\* a row above the cap and a row that is not, with an elasticity below 1
C15_Witness ==
    /\ RoiReturned
    /\ Len(df) = 2
    /\ Capped(1) /\ ~Capped(2)
    /\ df[1].Sales > 0 /\ df[2].Sales > 0
    /\ elasticity = 5
    /\ roi.new_profit # roi.original_profit

\* the inputs of the simulator within the valid ranges
RoiTables == UNION {[1..n -> RoiRecord] : n \in 0..MaxRoiRows}

GainOf(rows, cap, e) ==
    IF rows = <<>> THEN ZeroImpact.profit_gain
    ELSE Impact(rows, cap, e).profit_gain

\* some input within the valid ranges gives a positive profit_gain
SomeGainPositive ==
    \E rows \in RoiTables, cap \in DiscountCaps, e \in Elasticities :
        GainOf(rows, cap, e) > 0

\* some input within the valid ranges gives a negative profit_gain
SomeGainNegative ==
    \E rows \in RoiTables, cap \in DiscountCaps, e \in Elasticities :
        GainOf(rows, cap, e) < 0

\* C16 as stated: profit_gain may be negative or positive: within the valid
\* ranges some input gives a positive profit_gain and some input gives a
\* negative one, so a call of the simulator can take the dashboard's branch
\* for profit_gain > 0.
C16_GainOfEitherSign ==
    RoiCalled => (SomeGainPositive /\ SomeGainNegative)

\* C17: when a row with sales is discounted above the cap and the
\* elasticity is positive, also with the cap 0, revenue_risk is positive
\* and profit_gain is not 0.
C17_CapBites ==
    (RoiReturned /\ elasticity > 0
        /\ \E i \in DOMAIN df : Capped(i) /\ df[i].Sales > 0) =>
        /\ roi.revenue_risk > 0
        /\ roi.profit_gain # 0

\* the cap 0 on a table with a discounted row and a row without discount
C17_Witness ==
    /\ RoiReturned
    /\ discount_cap = 0
    /\ elasticity > 0
    /\ \E i \in DOMAIN df : Capped(i) /\ df[i].Sales > 0
    /\ \E i \in DOMAIN df : ~Capped(i)
    /\ roi.revenue_risk > 0

----------------------------------------------------------------------------
(* The caller's table *)

\* C18: none of calculate_rfm, calculate_roi_impact and validate_data
\* mutates the caller's table: after the call it has the same rows, the
\* same columns (no New_Sales, New_Profit or score column) and the same
\* values as before.
C18_InputNotMutated ==
    [][/\ df' = df
       /\ df_columns' = df_columns
       /\ order_date_dtype' = order_date_dtype]_vars

\* the simulator has returned after capping a row, and the caller's table
\* holds the input columns only
C18_Witness ==
    /\ RoiReturned
    /\ \E i \in DOMAIN df : Capped(i) /\ df[i].Sales > 0
    /\ elasticity > 0
    /\ roi.revenue_risk > 0
    /\ df_columns = RoiInputColumns
    /\ \A i \in DOMAIN df : DOMAIN df[i] = RoiInputColumns

----------------------------------------------------------------------------
(* Properties of validate_data *)

ValidateCalled == call = "validate_data"
ValidateReturned == pc = "returned" /\ ValidateCalled

Errors == validation.errors

HasError(e) == \E i \in DOMAIN Errors : Errors[i] = e

MissingSet == RequiredSet \ df_columns

MissingFails == MissingSet # {}
EmptyFails == Empty(df, df_columns)
NullFails(col) == col \in df_columns /\ AnyNull(df, col)
DtypeFails == "Order_Date" \in df_columns /\ order_date_dtype # Datetime64
NegativeFails == "Sales" \in df_columns /\ AnyNegativeSales(df)

\* the columns whose nulls are reported
CriticalSet == {"Order_Date", "Customer_ID", "Sales"}

HasMissingError == \E i \in DOMAIN Errors : Errors[i].kind = MissingError(<<>>).kind

\* the number of the content checks that fail
FailingContentChecks ==
    Cardinality({c \in CriticalSet : NullFails(c)})
        + (IF DtypeFails THEN 1 ELSE 0) + (IF NegativeFails THEN 1 ELSE 0)

\* C20 as stated: errors holds one entry for each check that fails (missing
\* columns, empty table, nulls, Order_Date that is not date-typed, negative
\* Sales) whatever the other failures: an empty table whose Order_Date is
\* not date-typed is reported with the empty-table and the date-type error.
C20_EveryFailingCheck ==
    ValidateReturned =>
        /\ HasMissingError <=> MissingFails
        /\ HasError(EmptyError) <=> EmptyFails
        /\ \A c \in CriticalSet : HasError(NullError(c)) <=> NullFails(c)
        /\ HasError(DtypeError) <=> DtypeFails
        /\ HasError(NegativeSalesError) <=> NegativeFails

\* C20: for a table that is not empty, errors holds exactly one entry for
\* each check that fails (missing columns, nulls per critical column,
\* Order_Date that is not date-typed, negative Sales) whatever the other
\* failures.  For an empty table the function returns after the check for
\* missing columns and the check for emptiness: errors holds the empty-table
\* entry, the missing-columns entry if columns are missing, and no other
\* entry, also when Order_Date is not date-typed.
C20_EveryCheckUnlessEmpty ==
    ValidateReturned =>
        /\ HasMissingError <=> MissingFails
        /\ HasError(EmptyError) <=> EmptyFails
        /\ ~EmptyFails =>
              /\ \A c \in CriticalSet : HasError(NullError(c)) <=> NullFails(c)
              /\ HasError(DtypeError) <=> DtypeFails
              /\ HasError(NegativeSalesError) <=> NegativeFails
              /\ Len(Errors) = (IF MissingFails THEN 1 ELSE 0)
                                  + FailingContentChecks
        /\ EmptyFails =>
              /\ Len(Errors) = (IF MissingFails THEN 1 ELSE 0) + 1
              /\ ~HasError(DtypeError)

\* four checks fail at once on a table with rows and all four are reported
C20_Witness ==
    /\ ValidateReturned
    /\ ~EmptyFails
    /\ MissingFails
    /\ NullFails("Customer_ID")
    /\ DtypeFails
    /\ NegativeFails
    /\ Len(Errors) = 4

----------------------------------------------------------------------------
(* The findings of validate_data *)

\* every check but the check for negative Sales passes
OnlyNegativeFails ==
    /\ ~MissingFails
    /\ ~EmptyFails
    /\ \A c \in CriticalSet : ~NullFails(c)
    /\ ~DtypeFails
    /\ NegativeFails

\* C21 as stated: the negative-Sales finding is a warning and not fatal: a
\* table that passes every other check and holds a negative Sales value is
\* reported with the warning entry and is still valid.
C21_NegativeSalesNotFatal ==
    (ValidateReturned /\ OnlyNegativeFails) =>
        /\ HasError(NegativeSalesError)
        /\ validation.valid

\* the columns of identifiers, dates and amounts
NullCheckedByClaim ==
    {"Customer_ID", "Order_ID", "Order_Date", "Sales", "Profit", "Discount"}

\* C22 as stated: a null in Customer_ID, Order_ID, Order_Date, Sales, Profit
\* or Discount of a table that is not empty is reported, and valid is false.
C22_NullInAnyKeyColumn ==
    (ValidateReturned /\ df # <<>>
        /\ \E c \in NullCheckedByClaim : c \in df_columns /\ AnyNull(df, c)) =>
        /\ ~validation.valid
        /\ Errors # <<>>

\* C22: a null in Order_Date, Customer_ID or Sales of a table that is not
\* empty is reported with an entry that names the column, and valid is
\* false.  A null in Order_ID, Profit or Discount is not reported: a table
\* whose only failure is such a null is valid with no error.
C22_NullInCriticalColumn ==
    (ValidateReturned /\ ~EmptyFails) =>
        /\ \A c \in CriticalSet :
              NullFails(c) => (HasError(NullError(c)) /\ ~validation.valid)
        /\ \A c \in NullCheckedByClaim \ CriticalSet :
              ~HasError(NullError(c))
        /\ (~MissingFails /\ ~DtypeFails /\ ~NegativeFails
              /\ \A c \in CriticalSet : ~NullFails(c)) => validation.valid

\* a null Profit passes, and a null Sales is reported
C22_Witness ==
    /\ ValidateReturned
    /\ Len(df) = 2
    /\ IsNull(df[1], "Profit") /\ IsNull(df[2], "Sales")
    /\ Errors = <<NullError("Sales")>>

\* C23: valid is false with at least one error when one of the nine required
\* columns is absent; valid is false with the empty-table error when the
\* table has no rows; valid is true with no error on a table with rows, all
\* nine columns, no null in Order_Date, Customer_ID and Sales, a date-typed
\* Order_Date and no negative Sales.
C23_ValidExactlyWhenClean ==
    ValidateReturned =>
        /\ MissingFails => (~validation.valid /\ Len(Errors) >= 1)
        /\ df = <<>> => (~validation.valid /\ HasError(EmptyError))
        /\ (df # <<>> /\ ~MissingFails /\ ~DtypeFails /\ ~NegativeFails
              /\ \A c \in CriticalSet : ~NullFails(c)) =>
                 (validation.valid /\ Errors = <<>>)

\* a clean table of two rows is valid
C23_Witness ==
    /\ ValidateReturned
    /\ Len(df) = 2
    /\ df_columns = RequiredSet
    /\ validation.valid
    /\ Errors = <<>>

----------------------------------------------------------------------------
(* Relations between the fields of the simulator's result *)

\* C25: for every input profit_gain = -revenue_risk and new_profit =
\* original_profit + profit_gain; hence when revenue_risk is not negative
\* the projected profit does not exceed the original profit.
C25_GainIsMinusRisk ==
    RoiReturned =>
        /\ roi.profit_gain = 0 - roi.revenue_risk
        /\ roi.new_profit = roi.original_profit + roi.profit_gain
        /\ roi.revenue_risk >= 0 => roi.new_profit <= roi.original_profit

\* a call that loses revenue on a table with a loss-making row
C25_Witness ==
    /\ RoiReturned
    /\ roi.revenue_risk > 0
    /\ roi.new_profit < roi.original_profit
    /\ \E i \in DOMAIN df : df[i].Profit < 0

\* revenue_risk of the table rows for the cap and the elasticity e
RiskOf(rows, cap, e) ==
    IF rows = <<>> THEN ZeroImpact.revenue_risk
    ELSE Impact(rows, cap, e).revenue_risk

\* C28: for a fixed table with sales that are not negative, revenue_risk
\* does not rise when the cap is raised, does not fall when the elasticity
\* is raised, and is 0 for every cap when the elasticity is 0.
C28_RiskMonotone ==
    (RoiReturned /\ \A i \in DOMAIN df : df[i].Sales >= 0) =>
        /\ \A cap \in DiscountCaps :
              cap >= discount_cap =>
                 RiskOf(df, cap, elasticity) <= roi.revenue_risk
        /\ \A e \in Elasticities :
              e >= elasticity =>
                 RiskOf(df, discount_cap, e) >= roi.revenue_risk
        /\ \A cap \in DiscountCaps : RiskOf(df, cap, 0) = 0

\* a call whose risk falls under a higher cap and rises under a higher
\* elasticity
C28_Witness ==
    /\ RoiReturned
    /\ roi.revenue_risk > 0
    /\ \E cap \in DiscountCaps :
          /\ cap > discount_cap
          /\ RiskOf(df, cap, elasticity) < roi.revenue_risk
          /\ RiskOf(df, cap, elasticity) > 0
    /\ \E e \in Elasticities :
          e > elasticity /\ RiskOf(df, discount_cap, e) > roi.revenue_risk

----------------------------------------------------------------------------
(* The labelling in three tiers and the labelling in five tiers *)

ScoreValues == 1..5

FiveTiers == {"Champions", "Loyalists", "At Risk", "Hibernating", "Regular"}

\* the tiers of the five that are not Champions and not At Risk
RemainingTiers == {"Loyalists", "Hibernating", "Regular"}

\* the three-tier label of (r, f) is the coarsening of its five-tier label
Coarsens(r, f) ==
    /\ Segment(r, f) = "Champions" <=> SegmentMap(r, f) = "Champions"
    /\ Segment(r, f) = "At Risk" <=> SegmentMap(r, f) = "At Risk"
    /\ Segment(r, f) = "Regular" <=> SegmentMap(r, f) \in RemainingTiers

\* C29: the three-tier label of the dashboard is a coarsening of the
\* five-tier label of the analytics scripts: for every (R, F) of 1..5 x 1..5
\* it is Champions exactly when the five-tier label is the Champions tier,
\* At Risk exactly when the five-tier label is At Risk, and Regular exactly
\* when the five-tier label is one of the other three; every one of the five
\* tiers is the label of some (R, F); and the Segment of every returned row
\* is the coarsening of the five-tier label of the row's scores.
C29_ThreeTiersCoarsenFive ==
    /\ \A r \in ScoreValues, f \in ScoreValues : Coarsens(r, f)
    /\ \A t \in FiveTiers :
          \E r \in ScoreValues, f \in ScoreValues : SegmentMap(r, f) = t
    /\ Returned =>
          \A i \in DOMAIN Out :
              /\ Coarsens(Out[i].R, Out[i].F)
              /\ Out[i].Segment = Segment(Out[i].R, Out[i].F)

\* a call that returns a Champions row and a Regular row whose five-tier
\* label is Hibernating
C29_Witness ==
    /\ Returned
    /\ \E i, j \in DOMAIN Out :
          /\ Out[i].Segment = "Champions"
          /\ SegmentMap(Out[i].R, Out[i].F) = "Champions"
          /\ Out[j].Segment = "Regular"
          /\ SegmentMap(Out[j].R, Out[j].F) = "Hibernating"

----------------------------------------------------------------------------
(* Order properties of the scores *)

\* C26: the scoring is monotone: for two customers A and B of one call, a
\* Recency of A below the Recency of B gives R(A) >= R(B), and a Frequency
\* of A above the Frequency of B gives F(A) >= F(B).
C26_ScoresMonotone ==
    Returned =>
        \A i, j \in DOMAIN Out :
            /\ Out[i].Recency < Out[j].Recency => Out[i].R >= Out[j].R
            /\ Out[i].Frequency > Out[j].Frequency => Out[i].F >= Out[j].F

\* five customers or more, with a pair scored apart by Recency, a pair
\* scored apart by Frequency and a pair of equal Frequency scored apart
C26_Witness ==
    /\ Returned
    /\ Len(Out) >= 5
    /\ \E i, j \in DOMAIN Out :
          Out[i].Recency < Out[j].Recency /\ Out[i].R > Out[j].R
    /\ \E i, j \in DOMAIN Out :
          Out[i].Frequency > Out[j].Frequency /\ Out[i].F > Out[j].F
    /\ \E i, j \in DOMAIN Out :
          Out[i].Frequency = Out[j].Frequency /\ Out[i].F # Out[j].F

\* the table t with the rows k and k + 1 exchanged
SwapRows(t, k) ==
    [i \in DOMAIN t |->
        IF i = k THEN t[k + 1] ELSE IF i = k + 1 THEN t[k] ELSE t[i]] \o <<>>

\* the rows of a result, each with its Customer_ID
RowSet(rows) == {rows[i] : i \in DOMAIN rows}

\* C27: the result does not depend on the order of the input rows: with the
\* same snapshot date, the table with two neighbouring rows exchanged gives
\* every customer the same Recency, Frequency, Monetary, R, F, M and
\* Segment.  Every reordering of a table is a sequence of such exchanges,
\* each applied to a table of the model.
C27_RowOrderInvariant ==
    (Returned /\ df # <<>>) =>
        \A k \in 1..(Len(df) - 1) :
            RowSet(RfmRows(SwapRows(df, k), snapshot_date)) = RowSet(Out)

\* two customers, the second one first in the table, the rows of a customer
\* in falling order of date, and an exchange that changes the table
C27_Witness ==
    /\ Returned
    /\ Len(df) = 3
    /\ Len(Out) = 2
    /\ df[1].Customer_ID > df[3].Customer_ID
    /\ \E i, j \in DOMAIN df :
          /\ i < j
          /\ df[i].Customer_ID = df[j].Customer_ID
          /\ df[i].Order_Date > df[j].Order_Date
    /\ SwapRows(df, 1) # df
    /\ Out[1].Frequency # Out[2].Frequency

----------------------------------------------------------------------------
(* Direct calls on tables that lack columns *)

RfmCalled == call = "calculate_rfm"

\* the called function needs a column the table lacks
LacksNeeded ==
    \/ RfmCalled /\ ~(RfmInputColumns \subseteq df_columns)
    \/ RoiCalled /\ ~(RoiInputColumns \subseteq df_columns)

\* C24 as stated: calculate_rfm and calculate_roi_impact, called on a table
\* that lacks one of the columns they need, an empty table included, end in
\* an error and return no result.
C24_FailFast ==
    LacksNeeded => (pc = "raised" /\ rfm = NoResult /\ roi = NoImpact)

\* C24: called on a table with rows that lacks one of the columns they
\* need, calculate_rfm and calculate_roi_impact end in an error (KeyError)
\* and return no result.  Called on an empty table they return before they
\* read a column: calculate_rfm returns its empty frame and
\* calculate_roi_impact its dict of zeros, whatever columns the table lacks.
C24_FailFastUnlessEmpty ==
    /\ (LacksNeeded /\ df # <<>>) =>
          (pc = "raised" /\ rfm = NoResult /\ roi = NoImpact)
    /\ (RfmCalled /\ df = <<>>) =>
          (pc = "returned" /\ rfm = [columns |-> EmptyColumns, rows |-> <<>>])
    /\ (RoiCalled /\ df = <<>>) =>
          (pc = "returned"
              /\ roi = [original_profit |-> 0, new_profit |-> 0,
                        profit_gain |-> 0, revenue_risk |-> 0])
    /\ ((RfmCalled \/ RoiCalled) /\ ~LacksNeeded) => pc = "returned"

\* calculate_rfm has raised on a table of two rows that lacks Sales only
C24_Witness ==
    /\ RfmCalled
    /\ pc = "raised"
    /\ Len(df) = 2
    /\ RfmInputColumns \ df_columns = {"Sales"}

\* C30: in every run of the dashboard, calculate_rfm and calculate_roi_impact
\* are invoked only after load_data_sql obtained valid = true from
\* validate_data and only on a non-empty filtered table: a run whose loading
\* or validation failed, or whose loaded or filtered table is empty, has
\* stopped with no RFM or ROI computation made.
Computing == call \in {"calculate_rfm", "calculate_roi_impact"}

PastFilters == pc \in {"tab1", "tab4", "tab5", "done"}

LoadedValid ==
    /\ ~db_error
    /\ validation # NoValidation
    /\ validation.valid
    /\ df # <<>>

C30_ComputeOnlyOnValidFiltered ==
    /\ (Computing \/ PastFilters) => (LoadedValid /\ f_df # <<>>)
    /\ pc = "stopped" => (~Computing /\ rfm = NoResult /\ roi = NoImpact)
    /\ (pc \notin {"main", "filters"} /\ ~(LoadedValid /\ f_df # <<>>))
           => pc = "stopped"

\* a run that filtered a row away and computed the segments and the impact
C30_Witness ==
    /\ pc = "done"
    /\ call = "calculate_rfm"
    /\ Len(f_df) < Len(df)
    /\ rfm # NoResult
    /\ roi # NoImpact

====
